---- MODULE Spec2Model ----
(***************************************************************************)
(* A model of the ZMON client request layer (zmon_cli/client.py): client   *)
(* construction, the entity-id helpers, the validators and every resource  *)
(* operation, each as one action that records the requests it sent, the    *)
(* responses it got and how the call ended.                                *)
(*                                                                         *)
(* Python values: None is the empty tuple, any other optional value x is   *)
(* the one-element tuple <<x>>; a str that the code inspects character by  *)
(* character (an entity id) is a tuple of one-character strings; a dict is *)
(* a function whose DOMAIN is its key set.                                  *)
(***************************************************************************)
EXTENDS Integers, Sequences, FiniteSets, TLC

VARIABLES zmon, call

vars == <<zmon, call>>

None == <<>>
Some(x) == <<x>>

\* Python truthiness of an optional str: None and '' are falsy.
Truthy(o) == o # None /\ o[1] # ""

(***************************************************************************)
(* Bounds of the model.                                                    *)
(***************************************************************************)
\* Entity ids fed to the id helpers have at most this many characters.
MaxIdLen == 3
\* Calls of endpoint pass at most this many path segments.
MaxSegments == 2

(***************************************************************************)
(* Module constants of client.py.                                          *)
(***************************************************************************)
API_VERSION == "v1"
ZMON_USER_AGENT == "zmon-client/1"

ACTIVE_ALERT_DEF == "checks/all-active-alert-definitions"
ACTIVE_CHECK_DEF == "checks/all-active-check-definitions"
ALERT_DATA == "status/alert"
ALERT_DEF == "alert-definitions"
CHECK_DEF == "check-definitions"
DASHBOARD == "dashboard"
DOWNTIME == "downtimes"
ENTITIES == "entities"
GRAFANA == "grafana2-dashboards"
GROUPS == "groups"
MEMBER == "member"
PHONE == "phone"
SEARCH == "quick-search"
STATUS == "status"
TOKENS == "onetime-tokens"

ALERT_DETAILS_VIEW_URL == "#/alert-details/"
CHECK_DEF_VIEW_URL == "#/check-definitions/view/"
DASHBOARD_VIEW_URL == "#/dashboards/views/"
GRAFANA_DASHBOARD_URL == "grafana/dashboard/db/"
TOKEN_LOGIN_URL == "tv/"

\* The default of the constructor's timeout parameter.
DefaultTimeout == 10

(***************************************************************************)
(* Characters and the two compiled patterns.                               *)
(***************************************************************************)
LowerLetters ==
    <<"a","b","c","d","e","f","g","h","i","j","k","l","m",
      "n","o","p","q","r","s","t","u","v","w","x","y","z">>
UpperLetters ==
    <<"A","B","C","D","E","F","G","H","I","J","K","L","M",
      "N","O","P","Q","R","S","T","U","V","W","X","Y","Z">>
Digits == {"0","1","2","3","4","5","6","7","8","9"}

Range(s) == {s[i] : i \in DOMAIN s}

\* str.lower() on one character.
lower_char(c) ==
    IF c \in Range(UpperLetters)
    THEN LowerLetters[CHOOSE i \in DOMAIN UpperLetters : UpperLetters[i] = c]
    ELSE c

\* str.lower()
lower(e) == [i \in DOMAIN e |-> lower_char(e[i])]

\* The characters of the class [a-zA-Z0-9-@_.\[\]\:] that invalid_entity_id_re
\* negates.
entity_id_class ==
    Range(LowerLetters) \cup Range(UpperLetters) \cup Digits
        \cup {"-", "@", "_", ".", "[", "]", ":"}

\* invalid_entity_id_re = '[^a-zA-Z0-9-@_.\[\]\:]+': what one character of a
\* match must be.
invalid_entity_id_re(c) == c \notin entity_id_class

\* The length of the longest prefix of s made of the character c only.
RECURSIVE RunOfChar(_, _)
RunOfChar(c, s) ==
    IF s # <<>> /\ Head(s) = c THEN 1 + RunOfChar(c, Tail(s)) ELSE 0

\* The length of the longest prefix of s made of invalid characters.
RECURSIVE RunOfInvalid(_)
RunOfInvalid(s) ==
    IF s # <<>> /\ invalid_entity_id_re(Head(s))
    THEN 1 + RunOfInvalid(Tail(s)) ELSE 0

Drop(s, n) == SubSeq(s, n + 1, Len(s))

\* parentheses_re = '[(]+|[)]+': the length of the match at the start of s
\* (0: no match there). The alternation tries '[(]+' first; both are greedy.
parentheses_re(s) ==
    IF RunOfChar("(", s) > 0 THEN RunOfChar("(", s) ELSE RunOfChar(")", s)

\* parentheses_re.sub(lambda m: '[' if '(' in m.group() else ']', s): every
\* non-overlapping match, left to right, replaced by the lambda's value.
RECURSIVE parentheses_sub(_)
parentheses_sub(s) ==
    IF s = <<>> THEN <<>>
    ELSE LET n == parentheses_re(s) IN
         IF n > 0
         THEN <<IF "(" \in Range(SubSeq(s, 1, n)) THEN "[" ELSE "]">>
                  \o parentheses_sub(Drop(s, n))
         ELSE <<Head(s)>> \o parentheses_sub(Tail(s))

\* invalid_entity_id_re.sub('-', s)
RECURSIVE invalid_sub(_)
invalid_sub(s) ==
    IF s = <<>> THEN <<>>
    ELSE LET n == RunOfInvalid(s) IN
         IF n > 0
         THEN <<"-">> \o invalid_sub(Drop(s, n))
         ELSE <<Head(s)>> \o invalid_sub(Tail(s))

\* invalid_entity_id_re.search(s) is None: the pattern needs one invalid
\* character somewhere in s.
re_search_is_None(s) == \A i \in DOMAIN s : ~invalid_entity_id_re(s[i])

\* get_valid_entity_id without the lower(): a bug that keeps capitals.
get_valid_entity_id_no_lower(e) == invalid_sub(parentheses_sub(e))

get_valid_entity_id(e) == invalid_sub(parentheses_sub(lower(e)))

\* is_valid_entity_id with re.match for re.search: a bug that looks at the
\* start of the id only.
is_valid_entity_id_match(entity_id) ==
    entity_id = <<>> \/ ~invalid_entity_id_re(entity_id[1])

is_valid_entity_id(entity_id) == re_search_is_None(entity_id)

(***************************************************************************)
(* The outcome of a call.                                                  *)
(***************************************************************************)
Return(v) == [kind |-> "return", value |-> v]
Raise(e) == [kind |-> "raise", exc |-> e]
\* requests.HTTPError, with the response's status code.
HTTPError(resp) == [kind |-> "raise", exc |-> "HTTPError", status |-> resp.status_code]

(***************************************************************************)
(* URLs, the session and the backend's responses.                          *)
(***************************************************************************)
\* urlsplit(url): the scheme, the host and the rest of a base URL.
BaseUrls == {[scheme |-> "https", netloc |-> "zmon.example", path |-> "/ui"]}

\* A str as the URL functions see it: its '/' and '#' characters one by one
\* and, between them, the runs of other characters.
atoms(s) ==
    CASE s = "" -> <<>>
      [] s = ACTIVE_ALERT_DEF -> <<"checks", "/", "all-active-alert-definitions">>
      [] s = ACTIVE_CHECK_DEF -> <<"checks", "/", "all-active-check-definitions">>
      [] s = ALERT_DATA -> <<"status", "/", "alert">>
      [] s = ALERT_DETAILS_VIEW_URL -> <<"#", "/", "alert-details", "/">>
      [] s = CHECK_DEF_VIEW_URL -> <<"#", "/", "check-definitions", "/", "view", "/">>
      [] s = DASHBOARD_VIEW_URL -> <<"#", "/", "dashboards", "/", "views", "/">>
      [] s = GRAFANA_DASHBOARD_URL -> <<"grafana", "/", "dashboard", "/", "db", "/">>
      [] s = TOKEN_LOGIN_URL -> <<"tv", "/">>
      [] OTHER -> <<s>>

\* The path segments a caller passes: a str or an int each.
StrSeg(s) == [str |-> s]
IntSeg(n) == [int |-> n]
Segs(parts) == [i \in DOMAIN parts |-> StrSeg(atoms(parts[i]))]

\* str(n) of a natural number.
DigitChars == <<"0", "1", "2", "3", "4", "5", "6", "7", "8", "9">>
RECURSIVE decimal(_)
decimal(n) ==
    IF n < 10 THEN DigitChars[n + 1]
    ELSE decimal(n \div 10) \o DigitChars[(n % 10) + 1]

\* str(p)
py_str(p) == IF "int" \in DOMAIN p THEN <<decimal(p.int)>> ELSE p.str

\* urlunsplit(SplitResult(scheme, netloc, '', '', ''))
urlunsplit(split) == <<split.scheme \o ":", "/", "/", split.netloc>>

\* s.lstrip('/'), s.rstrip('/') and s.strip('/')
RECURSIVE lstrip(_)
lstrip(s) == IF s # <<>> /\ s[1] = "/" THEN lstrip(Tail(s)) ELSE s

RECURSIVE rstrip(_)
rstrip(s) ==
    IF s # <<>> /\ s[Len(s)] = "/" THEN rstrip(SubSeq(s, 1, Len(s) - 1)) ELSE s

strip(s) == rstrip(lstrip(s))

\* '/'.join(p for p in parts), as join_path would be without the strip.
RECURSIVE join_path_no_strip(_)
join_path_no_strip(parts) ==
    IF parts = <<>> THEN <<>>
    ELSE IF Len(parts) = 1 THEN py_str(parts[1])
    ELSE py_str(parts[1]) \o <<"/">> \o join_path_no_strip(Tail(parts))

\* '/'.join(str(p).strip('/') for p in parts)
RECURSIVE join_path(_)
join_path(parts) ==
    IF parts = <<>> THEN <<>>
    ELSE IF Len(parts) = 1 THEN strip(py_str(parts[1]))
    ELSE strip(py_str(parts[1])) \o <<"/">> \o join_path(Tail(parts))

\* s.split('/'): the names between the slashes, '' where two slashes meet
\* or the str begins or ends with one.
split_glue(chars, names) == <<chars \o Head(names)>> \o Tail(names)

RECURSIVE split(_)
split(s) ==
    IF s = <<>> THEN <<"">>
    ELSE IF s[1] = "/" THEN <<"">> \o split(Tail(s))
    ELSE split_glue(s[1], split(Tail(s)))

\* '/'.join(names)
RECURSIVE slash_join(_)
slash_join(names) ==
    IF names = <<>> THEN <<>>
    ELSE (IF names[1] = "" THEN <<>> ELSE <<names[1]>>)
         \o (IF Len(names) = 1 THEN <<>> ELSE <<"/">> \o slash_join(Tail(names)))

\* The index of the first of the given characters in s, Len(s) + 1 when it
\* has none.
RECURSIVE find_first(_, _)
find_first(s, chars) ==
    IF s = <<>> \/ s[1] \in chars THEN 1 ELSE 1 + find_first(Tail(s), chars)

\* urlparse(url): scheme, netloc, path and fragment (the client's URLs have
\* neither params nor a query). The fragment starts after the first '#'.
urlparse_path(scheme, netloc, rest) ==
    [scheme |-> scheme, netloc |-> netloc,
     path |-> SubSeq(rest, 1, find_first(rest, {"#"}) - 1),
     fragment |-> SubSeq(rest, find_first(rest, {"#"}) + 1, Len(rest))]

\* The netloc follows a leading '//' and ends before the next '/' or '#'.
urlparse_netloc(scheme, rest) ==
    IF Len(rest) >= 2 /\ rest[1] = "/" /\ rest[2] = "/"
    THEN urlparse_path(scheme,
             SubSeq(rest, 3, 1 + find_first(Tail(Tail(rest)), {"/", "#"})),
             SubSeq(rest, 2 + find_first(Tail(Tail(rest)), {"/", "#"}), Len(rest)))
    ELSE urlparse_path(scheme, <<>>, rest)

Schemes == {"https:"}
urlparse(url) ==
    IF url # <<>> /\ url[1] \in Schemes
    THEN urlparse_netloc(<<url[1]>>, Tail(url))
    ELSE urlparse_netloc(<<>>, url)

\* urlunparse((scheme, netloc, path, '', '', fragment))
urlunparse(scheme, netloc, path, fragment) ==
    scheme \o <<"/", "/">> \o netloc
    \o (IF path # <<>> /\ path[1] # "/" THEN <<"/">> ELSE <<>>) \o path
    \o (IF fragment # <<>> THEN <<"#">> \o fragment ELSE <<>>)

\* The loop of urljoin that resolves '.' and '..' segments.
RECURSIVE resolve_dots(_, _)
resolve_dots(segments, resolved) ==
    IF segments = <<>> THEN resolved
    ELSE resolve_dots(Tail(segments),
             IF segments[1] = ".."
             THEN SubSeq(resolved, 1, Len(resolved) - 1)
             ELSE IF segments[1] = "." THEN resolved
             ELSE Append(resolved, segments[1]))

\* urljoin: the base's directory, its path without a last name that is not
\* empty.
base_parts(split_base) ==
    IF split_base[Len(split_base)] # ""
    THEN SubSeq(split_base, 1, Len(split_base) - 1)
    ELSE split_base

\* urljoin: segments[1:-1] = filter(None, segments[1:-1])
filter_middle(segments) ==
    IF Len(segments) < 2 THEN segments
    ELSE <<segments[1]>>
         \o SelectSeq(SubSeq(segments, 2, Len(segments) - 1), LAMBDA seg : seg # "")
         \o <<segments[Len(segments)]>>

\* urljoin: a reference that starts with '/' replaces the base's path, any
\* other goes under the base's directory.
path_segments(bpath, path) ==
    IF path[1] = "/" THEN split(path)
    ELSE filter_middle(base_parts(split(bpath)) \o split(path))

\* urljoin: '/'.join(resolved_path) or '/'
path_or_root(path) == IF path = <<>> THEN <<"/">> ELSE path

resolved_path(segments) ==
    path_or_root(slash_join(
        IF segments[Len(segments)] \in {".", ".."}
        THEN Append(resolve_dots(segments, <<>>), "")
        ELSE resolve_dots(segments, <<>>)))

\* urljoin, once base and url are parsed.
urljoin_parsed(b, u) ==
    IF u.netloc # <<>>
    THEN urlunparse(b.scheme, u.netloc, u.path, u.fragment)
    ELSE IF u.path = <<>>
    THEN urlunparse(b.scheme, b.netloc, b.path, u.fragment)
    ELSE urlunparse(b.scheme, b.netloc,
                    resolved_path(path_segments(b.path, u.path)), u.fragment)

\* urljoin(base, url)
urljoin(base, url) ==
    IF url = <<>> THEN base ELSE urljoin_parsed(urlparse(base), urlparse(url))

\* Zmon.endpoint(*args, trailing_slash=True, base_url=None)
endpoint(args, trailing_slash, base_url) ==
    LET parts == IF trailing_slash THEN Append(args, StrSeg(<<>>)) ELSE args
        url == IF base_url = None \/ base_url[1] = <<>> THEN zmon.url ELSE base_url[1]
    IN  urljoin(url, join_path(parts))

\* What requests sends for session.<method>(url, **kw): the session's
\* headers and auth are merged into the request; the timeout is the call's
\* own keyword (requests keeps no session-wide timeout), None when the call
\* gives none.
Request(method, url, kw) ==
    [method |-> method, url |-> url, kw |-> kw,
     headers |-> zmon.session.headers, auth |-> zmon.session.auth,
     timeout |-> IF "timeout" \in DOMAIN kw THEN Some(kw.timeout) ELSE None]

NoKw == [k \in {} |-> None]

StatusCodes == {200, 404, 500}
Bodies == {"", "1", "{\"id\": 1}", "oops"}

reason_of(status_code) ==
    CASE status_code = 200 -> "OK"
      [] status_code = 404 -> "Not Found"
      [] OTHER -> "Internal Server Error"

\* The responses the backend may give to a request.
Responses ==
    {[status_code |-> c, reason |-> reason_of(c), text |-> t] :
        c \in StatusCodes, t \in Bodies}

\* Response.raise_for_status() raises for a 4xx or 5xx status.
raises_for_status(resp) == 400 <= resp.status_code /\ resp.status_code < 600

\* Response.ok
ok(resp) == ~raises_for_status(resp)

\* Response.json(): json.loads of the body, for the bodies of the model.
json_loads(text) ==
    CASE text \in {"1", " 1 ", "1\n"} -> [valid |-> TRUE, value |-> [number |-> 1]]
      [] text = "true" -> [valid |-> TRUE, value |-> [bool |-> TRUE]]
      [] text = "[1]" -> [valid |-> TRUE, value |-> [array |-> <<1>>]]
      [] text = "{\"id\": 1}" -> [valid |-> TRUE, value |-> [object |-> [id |-> 1]]]
      [] OTHER -> [valid |-> FALSE]

\* Zmon.json(resp)
json(resp) ==
    IF raises_for_status(resp) THEN HTTPError(resp)
    ELSE IF json_loads(resp.text).valid THEN Return(json_loads(resp.text).value)
    ELSE Raise("JSONDecodeError")

\* <decoded>.get(key): a decoded object gives the key's value or None, any
\* other decoded value has no get.
dict_get(outcome, key) ==
    IF outcome.kind # "return" THEN outcome
    ELSE IF "object" \notin DOMAIN outcome.value THEN Raise("AttributeError")
    ELSE IF key \in DOMAIN outcome.value.object
         THEN Return(Some(outcome.value.object[key]))
    ELSE Return(None)

\* resp.raise_for_status(); return <value>
raise_or(resp, value) ==
    IF raises_for_status(resp) THEN HTTPError(resp) ELSE Return(value)

(***************************************************************************)
(* Construction.                                                           *)
(***************************************************************************)
Tokens == {None, Some(""), Some("tok")}
Usernames == {None, Some("user")}
Passwords == {None, Some("secret")}
Timeouts == {DefaultTimeout, 3}

\* Zmon.__init__(url, token, username, password, timeout)
Zmon(url, token, username, password, timeout) ==
    LET base_url == urlunsplit(url)
        auth == IF Truthy(username) /\ Truthy(password) /\ token = None
                THEN Some(<<username[1], password[1]>>) ELSE None
        headers0 == [h \in {"User-Agent", "Content-Type"} |->
                        IF h = "User-Agent" THEN ZMON_USER_AGENT
                        ELSE "application/json"]
        headers == IF Truthy(token)
                   THEN [h \in DOMAIN headers0 \cup {"Authorization"} |->
                            IF h = "Authorization" THEN "Bearer " \o token[1]
                            ELSE headers0[h]]
                   ELSE headers0
    IN  [timeout |-> timeout,
         base_url |-> base_url,
         url |-> urljoin(base_url, join_path(Segs(<<"api", API_VERSION, "">>))),
         user_agent |-> ZMON_USER_AGENT,
         session |-> [timeout |-> timeout, auth |-> auth, headers |-> headers]]

\* A finished call: the operation, its arguments as passed and as they are
\* after the call, the requests sent, the responses received, the outcome.
Done(op, args, after, sent, resps, outcome) ==
    /\ call' = [op |-> op, args |-> args, after |-> after, sent |-> sent,
                resps |-> resps, outcome |-> outcome]
    /\ UNCHANGED zmon

Init ==
    \E url \in BaseUrls, token \in Tokens, username \in Usernames,
       password \in Passwords, timeout \in Timeouts :
        /\ zmon = Zmon(url, token, username, password, timeout)
        /\ call = [op |-> "__init__",
                   args |-> [url |-> url, token |-> token, username |-> username,
                             password |-> password, timeout |-> timeout],
                   after |-> None, sent |-> <<>>, resps |-> <<>>,
                   outcome |-> Return(None)]

(***************************************************************************)
(* Deeplinks.                                                              *)
(***************************************************************************)
Ids == {"7"}

check_definition_url ==
    \E id \in Ids :
        Done("check_definition_url", [id |-> id], None, <<>>, <<>>,
             Return(endpoint(Segs(<<CHECK_DEF_VIEW_URL, id>>), TRUE, Some(zmon.base_url))))

alert_details_url ==
    \E id \in Ids :
        Done("alert_details_url", [id |-> id], None, <<>>, <<>>,
             Return(endpoint(Segs(<<ALERT_DETAILS_VIEW_URL, id>>), TRUE, Some(zmon.base_url))))

dashboard_url ==
    \E dashboard_id \in Ids :
        Done("dashboard_url", dashboard_id, None, <<>>, <<>>,
             Return(endpoint(Segs(<<DASHBOARD_VIEW_URL, dashboard_id>>), TRUE, Some(zmon.base_url))))

token_login_url ==
    \E token \in {"9pSzKpcO"} :
        Done("token_login_url", token, None, <<>>, <<>>,
             Return(endpoint(Segs(<<TOKEN_LOGIN_URL, token>>), TRUE, Some(zmon.base_url))))

grafana_dashboard_url ==
    \E id \in Ids :
        Done("grafana_dashboard_url", [dashboard |-> [id |-> id]], None, <<>>, <<>>,
             Return(endpoint(Segs(<<GRAFANA_DASHBOARD_URL, id>>), TRUE, Some(zmon.base_url))))

(***************************************************************************)
(* Status and entities.                                                    *)
(***************************************************************************)
status ==
    \E resp \in Responses :
        Done("status", None, None,
             <<Request("GET", endpoint(Segs(<<STATUS>>), TRUE, None), NoKw)>>,
             <<resp>>, json(resp))

\* json.dumps(query) for the queries of the model.
Queries == {None, Some([type |-> "instance"])}
json_dumps_query(query) == "{\"type\": \"instance\"}"

get_entities ==
    \E query \in Queries, resp \in Responses :
        LET params == IF query # None
                      THEN Some([query |-> json_dumps_query(query[1])]) ELSE None
        IN  Done("get_entities", query, query,
                 <<Request("GET", endpoint(Segs(<<ENTITIES>>), TRUE, None), [params |-> params])>>,
                 <<resp>>, json(resp))

get_entity ==
    \E entity_id \in {"host-1"}, resp \in Responses :
        Done("get_entity", entity_id, entity_id,
             <<Request("GET", endpoint(Segs(<<ENTITIES, entity_id>>), FALSE, None), NoKw)>>,
             <<resp>>, json(resp))

\* The dicts that hold some of the keys `keys` of a record of `full`.
Dicts(full, keys) == {[k \in K |-> d[k]] : d \in full, K \in SUBSET keys}

\* d[key] = value
SetItem(d, key, value) ==
    [k \in DOMAIN d \cup {key} |-> IF k = key THEN value ELSE d[k]]

\* json.dumps(obj, cls=JSONDateEncoder): the text that encodes obj.
json_dumps(obj) == [json_text_of |-> obj]

\* The entity ids add_entity is called with.
SampleIds ==
    {<<>>, <<"h","o","s","t","-","[","a","]">>,
     <<"H","o","s","t"," ","(","A",")">>, <<"a","#">>, <<"W","e","b",":","1">>}

Entities ==
    {[id |-> id, type |-> "host"] : id \in SampleIds}
    \cup {[k \in {"id"} |-> id] : id \in {<<"a","#">>, <<"W","e","b",":","1">>}}
    \cup {[k \in {"type"} |-> "host"], [k \in {} |-> "host"]}

\* add_entity with the checks after the PUT: a bug that sends a rejected
\* entity.
add_entity_put_first ==
    \E entity \in Entities, resp \in Responses :
        LET put == Request("PUT", endpoint(Segs(<<ENTITIES>>), FALSE, None),
                           [data |-> json_dumps(entity)])
        IN  IF "id" \notin DOMAIN entity \/ "type" \notin DOMAIN entity
            THEN Done("add_entity", entity, entity, <<put>>, <<resp>>,
                      Raise("ZmonArgumentError"))
            ELSE IF ~is_valid_entity_id(entity.id)
            THEN Done("add_entity", entity, entity, <<put>>, <<resp>>,
                      Raise("ZmonArgumentError"))
            ELSE Done("add_entity", entity, entity, <<put>>, <<resp>>,
                      raise_or(resp, resp))

add_entity ==
    \E entity \in Entities :
        IF "id" \notin DOMAIN entity \/ "type" \notin DOMAIN entity
        THEN Done("add_entity", entity, entity, <<>>, <<>>, Raise("ZmonArgumentError"))
        ELSE IF ~is_valid_entity_id(entity.id)
        THEN Done("add_entity", entity, entity, <<>>, <<>>, Raise("ZmonArgumentError"))
        ELSE \E resp \in Responses :
                Done("add_entity", entity, entity,
                     <<Request("PUT", endpoint(Segs(<<ENTITIES>>), FALSE, None),
                               [data |-> json_dumps(entity)])>>,
                     <<resp>>, raise_or(resp, resp))

\* What the backend may answer to a DELETE of an entity: besides the bodies
\* of every response, bodies that are not '1' but read as 1 or as true.
DeleteBodies == {" 1 ", "1\n", "true", "[1]"}
DeleteResponses ==
    Responses \cup {[status_code |-> c, reason |-> reason_of(c), text |-> t] :
                        c \in StatusCodes, t \in DeleteBodies}

\* delete_entity as it would be if it decoded the body as JSON.
delete_entity_decoded ==
    \E entity_id \in {"host-1"}, resp \in DeleteResponses :
        Done("delete_entity", entity_id, entity_id,
             <<Request("DELETE", endpoint(Segs(<<ENTITIES, entity_id>>), TRUE, None), NoKw)>>,
             <<resp>>,
             raise_or(resp, /\ json_loads(resp.text).valid
                            /\ json_loads(resp.text).value = [number |-> 1]))

delete_entity ==
    \E entity_id \in {"host-1"}, resp \in DeleteResponses :
        Done("delete_entity", entity_id, entity_id,
             <<Request("DELETE", endpoint(Segs(<<ENTITIES, entity_id>>), TRUE, None), NoKw)>>,
             <<resp>>, raise_or(resp, resp.text = "1"))

(***************************************************************************)
(* Dashboards.                                                             *)
(***************************************************************************)
get_dashboard ==
    \E dashboard_id \in Ids, resp \in Responses :
        Done("get_dashboard", dashboard_id, dashboard_id,
             <<Request("GET", endpoint(Segs(<<DASHBOARD, dashboard_id>>), TRUE, None), NoKw)>>,
             <<resp>>, json(resp))

Dashboards ==
    Dicts([id : {"", "7"}, name : {"Example dashboard"}], {"id", "name"})

update_dashboard ==
    \E dashboard \in Dashboards, resp \in Responses :
        LET url == IF "id" \in DOMAIN dashboard /\ dashboard.id # ""
                   THEN endpoint(Segs(<<DASHBOARD, dashboard.id>>), TRUE, None)
                   ELSE endpoint(Segs(<<DASHBOARD>>), TRUE, None)
        IN  Done("update_dashboard", dashboard, dashboard,
                 <<Request("POST", url, [json |-> dashboard])>>,
                 <<resp>>,
                 IF raises_for_status(resp) THEN HTTPError(resp) ELSE json(resp))

(***************************************************************************)
(* Check definitions.                                                      *)
(***************************************************************************)
\* get_check_definition without the empty-body hack.
not_found_if_empty_dropped(resp) == resp

\* The empty-body hack of get_check_definition: the response is rewritten to
\* a 404 before it is decoded.
not_found_if_empty(resp) ==
    IF resp.text = ""
    THEN [resp EXCEPT !.status_code = 404, !.reason = "Not Found"]
    ELSE resp

get_check_definition ==
    \E definition_id \in Ids, resp \in Responses :
        Done("get_check_definition", definition_id, definition_id,
             <<Request("GET", endpoint(Segs(<<CHECK_DEF, definition_id>>), TRUE, None), NoKw)>>,
             <<resp>>, json(not_found_if_empty(resp)))

get_check_definitions ==
    \E resp \in Responses :
        Done("get_check_definitions", None, None,
             <<Request("GET", endpoint(Segs(<<ACTIVE_CHECK_DEF>>), TRUE, None), NoKw)>>,
             <<resp>>, dict_get(json(resp), "check_definitions"))

\* ast.parse(src) succeeds, for the check commands of the model.
Commands == {"entities()", "", "def ("}
ast_parse(src) == src \in {"entities()", ""}

\* validate_check_command with the parse left out: a bug that accepts any
\* command.
validate_check_command_skipped(src) == Return(None)

\* Zmon.validate_check_command(src): raises ZmonError or returns None.
validate_check_command(src) ==
    IF ast_parse(src) THEN Return(None) ELSE Raise("ZmonError")

CheckDefinitions ==
    Dicts([owning_team : {"ZMON"}, status : {"INACTIVE"}, command : Commands],
          {"owning_team", "status", "command"})

update_check_definition ==
    \E check_definition \in CheckDefinitions :
        IF "owning_team" \notin DOMAIN check_definition
        THEN Done("update_check_definition", check_definition, check_definition,
                  <<>>, <<>>, Raise("ZmonArgumentError"))
        ELSE LET cd == IF "status" \notin DOMAIN check_definition
                       THEN SetItem(check_definition, "status", "ACTIVE")
                       ELSE check_definition
             IN  IF "command" \notin DOMAIN cd
                 THEN Done("update_check_definition", check_definition, cd,
                           <<>>, <<>>, Raise("KeyError"))
                 ELSE IF validate_check_command(cd.command).kind = "raise"
                 THEN Done("update_check_definition", check_definition, cd,
                           <<>>, <<>>, validate_check_command(cd.command))
                 ELSE \E resp \in Responses :
                        Done("update_check_definition", check_definition, cd,
                             <<Request("POST", endpoint(Segs(<<CHECK_DEF>>), TRUE, None),
                                       [json |-> cd])>>,
                             <<resp>>, json(resp))

delete_check_definition ==
    \E check_definition_id \in Ids, resp \in Responses :
        Done("delete_check_definition", check_definition_id, check_definition_id,
             <<Request("DELETE", endpoint(Segs(<<CHECK_DEF, check_definition_id>>), TRUE, None),
                       NoKw)>>,
             <<resp>>, raise_or(resp, resp))

(***************************************************************************)
(* Alert definitions and alert data.                                       *)
(***************************************************************************)
get_alert_definition ==
    \E alert_id \in Ids, resp \in Responses :
        Done("get_alert_definition", alert_id, alert_id,
             <<Request("GET", endpoint(Segs(<<ALERT_DEF, alert_id>>), TRUE, None), NoKw)>>,
             <<resp>>, json(resp))

get_alert_definitions ==
    \E resp \in Responses :
        Done("get_alert_definitions", None, None,
             <<Request("GET", endpoint(Segs(<<ACTIVE_ALERT_DEF>>), TRUE, None), NoKw)>>,
             <<resp>>, dict_get(json(resp), "alert_definitions"))

AlertDefinitions ==
    Dicts([last_modified_by : {"user"}, check_definition_id : {"7"}, id : {"42"},
           status : {"INACTIVE"}],
          {"last_modified_by", "check_definition_id", "id", "status"})

\* create_alert_definition as it would be without the default of status.
create_alert_definition_no_default ==
    \E alert_definition \in AlertDefinitions :
        IF \/ "last_modified_by" \notin DOMAIN alert_definition
           \/ "check_definition_id" \notin DOMAIN alert_definition
        THEN Done("create_alert_definition", alert_definition, alert_definition,
                  <<>>, <<>>, Raise("ZmonArgumentError"))
        ELSE \E resp \in Responses :
                Done("create_alert_definition", alert_definition, alert_definition,
                     <<Request("POST", endpoint(Segs(<<ALERT_DEF>>), TRUE, None),
                               [json |-> alert_definition])>>,
                     <<resp>>, json(resp))

create_alert_definition ==
    \E alert_definition \in AlertDefinitions :
        IF "last_modified_by" \notin DOMAIN alert_definition
        THEN Done("create_alert_definition", alert_definition, alert_definition,
                  <<>>, <<>>, Raise("ZmonArgumentError"))
        ELSE LET ad == IF "status" \notin DOMAIN alert_definition
                       THEN SetItem(alert_definition, "status", "ACTIVE")
                       ELSE alert_definition
             IN  IF "check_definition_id" \notin DOMAIN ad
                 THEN Done("create_alert_definition", alert_definition, ad,
                           <<>>, <<>>, Raise("ZmonArgumentError"))
                 ELSE \E resp \in Responses :
                        Done("create_alert_definition", alert_definition, ad,
                             <<Request("POST", endpoint(Segs(<<ALERT_DEF>>), TRUE, None),
                                       [json |-> ad])>>,
                             <<resp>>, json(resp))

update_alert_definition ==
    \E alert_definition \in AlertDefinitions :
        IF \/ "last_modified_by" \notin DOMAIN alert_definition
           \/ "id" \notin DOMAIN alert_definition
           \/ "check_definition_id" \notin DOMAIN alert_definition
        THEN Done("update_alert_definition", alert_definition, alert_definition,
                  <<>>, <<>>, Raise("ZmonArgumentError"))
        ELSE LET ad == IF "status" \notin DOMAIN alert_definition
                       THEN SetItem(alert_definition, "status", "ACTIVE")
                       ELSE alert_definition
             IN  \E resp \in Responses :
                    Done("update_alert_definition", alert_definition, ad,
                         <<Request("PUT", endpoint(Segs(<<ALERT_DEF, ad.id>>), TRUE, None),
                                   [json |-> ad])>>,
                         <<resp>>, json(resp))

delete_alert_definition ==
    \E alert_definition_id \in Ids, resp \in Responses :
        Done("delete_alert_definition", alert_definition_id, alert_definition_id,
             <<Request("DELETE", endpoint(Segs(<<ALERT_DEF, alert_definition_id>>), TRUE, None),
                       NoKw)>>,
             <<resp>>, json(resp))

get_alert_data ==
    \E alert_id \in Ids, resp \in Responses :
        Done("get_alert_data", alert_id, alert_id,
             <<Request("GET", endpoint(Segs(<<ALERT_DATA, alert_id, "all-entities">>), TRUE, None),
                       NoKw)>>,
             <<resp>>, json(resp))

(***************************************************************************)
(* Search.                                                                 *)
(***************************************************************************)
\* The values search is given as `teams`: None, a list, or a str.
TeamsArgs ==
    {None, [type |-> "list", items |-> <<"A", "B">>], [type |-> "list", items |-> <<>>],
     [type |-> "str", items |-> <<"A">>], [type |-> "str", items |-> <<>>],
     [type |-> "dict", items |-> <<>>]}

\* Python truthiness of a `teams` value: None and empty values are falsy.
teams_truthy(teams) == teams # None /\ teams.items # <<>>

\* ','.join(teams)
RECURSIVE comma_join(_)
comma_join(items) ==
    IF items = <<>> THEN ""
    ELSE IF Len(items) = 1 THEN items[1]
    ELSE items[1] \o "," \o comma_join(Tail(items))

search ==
    \E q \in {"", "zmon"}, teams \in TeamsArgs :
        IF q = ""
        THEN Done("search", [q |-> q, teams |-> teams], None, <<>>, <<>>,
                  Raise("ZmonArgumentError"))
        ELSE IF teams_truthy(teams) /\ teams.type \notin {"list", "tuple"}
        THEN Done("search", [q |-> q, teams |-> teams], None, <<>>, <<>>,
                  Raise("ZmonArgumentError"))
        ELSE LET params == IF teams_truthy(teams)
                           THEN [query |-> q, teams |-> comma_join(teams.items)]
                           ELSE [query |-> q]
             IN  \E resp \in Responses :
                    Done("search", [q |-> q, teams |-> teams], None,
                         <<Request("GET", endpoint(Segs(<<SEARCH>>), TRUE, None),
                                   [params |-> params])>>,
                         <<resp>>, json(resp))

(***************************************************************************)
(* One-time tokens.                                                        *)
(***************************************************************************)
list_onetime_tokens ==
    \E resp \in Responses :
        Done("list_onetime_tokens", None, None,
             <<Request("GET", endpoint(Segs(<<TOKENS>>), TRUE, None), NoKw)>>,
             <<resp>>, json(resp))

get_onetime_token ==
    \E resp \in Responses :
        Done("get_onetime_token", None, None,
             <<Request("POST", endpoint(Segs(<<TOKENS>>), TRUE, None), [json |-> NoKw])>>,
             <<resp>>, raise_or(resp, resp.text))

(***************************************************************************)
(* Grafana dashboards.                                                     *)
(***************************************************************************)
get_grafana_dashboard ==
    \E grafana_dashboard_id \in {"zmon-overview"}, resp \in Responses :
        Done("get_grafana_dashboard", grafana_dashboard_id, grafana_dashboard_id,
             <<Request("GET", endpoint(Segs(<<GRAFANA, grafana_dashboard_id>>), TRUE, None),
                       NoKw)>>,
             <<resp>>, json(resp))

GrafanaDashboards ==
    {[k \in {} |-> None]}
    \cup {[dashboard |-> d] :
            d \in Dicts([id : {"zmon-overview"}, title : {"ZMON"}], {"id", "title"})}

update_grafana_dashboard ==
    \E grafana_dashboard \in GrafanaDashboards :
        IF "dashboard" \notin DOMAIN grafana_dashboard
        THEN Done("update_grafana_dashboard", grafana_dashboard, grafana_dashboard,
                  <<>>, <<>>, Raise("KeyError"))
        ELSE IF "id" \notin DOMAIN grafana_dashboard.dashboard
        THEN Done("update_grafana_dashboard", grafana_dashboard, grafana_dashboard,
                  <<>>, <<>>, Raise("ZmonArgumentError"))
        ELSE IF "title" \notin DOMAIN grafana_dashboard.dashboard
        THEN Done("update_grafana_dashboard", grafana_dashboard, grafana_dashboard,
                  <<>>, <<>>, Raise("ZmonArgumentError"))
        ELSE \E resp \in Responses :
                Done("update_grafana_dashboard", grafana_dashboard, grafana_dashboard,
                     <<Request("POST", endpoint(Segs(<<GRAFANA>>), TRUE, None),
                               [json |-> grafana_dashboard])>>,
                     <<resp>>, json(resp))

(***************************************************************************)
(* Downtimes.                                                              *)
(***************************************************************************)
Downtimes ==
    Dicts([entities : {<<>>, <<"host-1">>}, start_time : {0, 1473337437},
           end_time : {1473341037}],
          {"entities", "start_time", "end_time"})

\* not downtime.get(key), for a key that holds a list or a number.
downtime_lacks(downtime, key) ==
    \/ key \notin DOMAIN downtime
    \/ IF key = "entities" THEN downtime[key] = <<>> ELSE downtime[key] = 0

create_downtime ==
    \E downtime \in Downtimes :
        IF downtime_lacks(downtime, "entities")
        THEN Done("create_downtime", downtime, downtime, <<>>, <<>>,
                  Raise("ZmonArgumentError"))
        ELSE IF downtime_lacks(downtime, "start_time") \/ downtime_lacks(downtime, "end_time")
        THEN Done("create_downtime", downtime, downtime, <<>>, <<>>,
                  Raise("ZmonArgumentError"))
        ELSE \E resp \in Responses :
                Done("create_downtime", downtime, downtime,
                     <<Request("POST", endpoint(Segs(<<DOWNTIME>>), TRUE, None),
                               [json |-> downtime])>>,
                     <<resp>>, json(resp))

(***************************************************************************)
(* Groups, members and phones.                                             *)
(***************************************************************************)
GroupNames == {"oncall"}
UserNames == {"jdoe"}
PhoneNumbers == {"0049123"}

get_groups ==
    \E resp \in Responses :
        Done("get_groups", None, None,
             <<Request("GET", endpoint(Segs(<<GROUPS>>), TRUE, None), NoKw)>>,
             <<resp>>, json(resp))

\* switch_active_user without the check of the deactivate response: a bug
\* that activates after a failed deactivate.
switch_active_user_unchecked ==
    \E group_name \in GroupNames, user_name \in UserNames,
       resp1 \in Responses, resp2 \in Responses :
        LET args == [group_name |-> group_name, user_name |-> user_name]
            deactivate == Request("DELETE", endpoint(Segs(<<GROUPS, group_name, "active">>), TRUE, None), NoKw)
            activate == Request("PUT", endpoint(Segs(<<GROUPS, group_name, "active", user_name>>), TRUE, None), NoKw)
        IN  Done("switch_active_user", args, args, <<deactivate, activate>>,
                 <<resp1, resp2>>,
                 IF ~ok(resp2) THEN HTTPError(resp2) ELSE Return(resp2.text = "1"))

switch_active_user ==
    \E group_name \in GroupNames, user_name \in UserNames, resp1 \in Responses :
        LET args == [group_name |-> group_name, user_name |-> user_name]
            deactivate == Request("DELETE", endpoint(Segs(<<GROUPS, group_name, "active">>), TRUE, None), NoKw)
            activate == Request("PUT", endpoint(Segs(<<GROUPS, group_name, "active", user_name>>), TRUE, None), NoKw)
        IN  IF ~ok(resp1)
            THEN Done("switch_active_user", args, args, <<deactivate>>, <<resp1>>,
                      HTTPError(resp1))
            ELSE \E resp2 \in Responses :
                    Done("switch_active_user", args, args, <<deactivate, activate>>,
                         <<resp1, resp2>>,
                         IF ~ok(resp2) THEN HTTPError(resp2)
                         ELSE Return(resp2.text = "1"))

add_member ==
    \E group_name \in GroupNames, user_name \in UserNames, resp \in Responses :
        LET args == [group_name |-> group_name, user_name |-> user_name]
        IN  Done("add_member", args, args,
                 <<Request("PUT", endpoint(Segs(<<GROUPS, group_name, MEMBER, user_name>>), TRUE, None), NoKw)>>,
                 <<resp>>, Return(resp.text = "1"))

remove_member ==
    \E group_name \in GroupNames, user_name \in UserNames, resp \in Responses :
        LET args == [group_name |-> group_name, user_name |-> user_name]
        IN  Done("remove_member", args, args,
                 <<Request("DELETE", endpoint(Segs(<<GROUPS, group_name, MEMBER, user_name>>), TRUE, None), NoKw)>>,
                 <<resp>>, raise_or(resp, resp.text = "1"))

add_phone ==
    \E member_email \in {"jdoe@example.org"}, phone_nr \in PhoneNumbers, resp \in Responses :
        LET args == [member_email |-> member_email, phone_nr |-> phone_nr]
        IN  Done("add_phone", args, args,
                 <<Request("PUT", endpoint(Segs(<<GROUPS, member_email, PHONE, phone_nr>>), TRUE, None), NoKw)>>,
                 <<resp>>, raise_or(resp, resp.text = "1"))

remove_phone ==
    \E member_email \in {"jdoe@example.org"}, phone_nr \in PhoneNumbers, resp \in Responses :
        LET args == [member_email |-> member_email, phone_nr |-> phone_nr]
        IN  Done("remove_phone", args, args,
                 <<Request("DELETE", endpoint(Segs(<<GROUPS, member_email, PHONE, phone_nr>>), TRUE, None), NoKw)>>,
                 <<resp>>, raise_or(resp, resp.text = "1"))

set_name ==
    \E member_email \in {"jdoe@example.org"}, member_name \in {"John Doe"}, resp \in Responses :
        LET args == [member_email |-> member_email, member_name |-> member_name]
        IN  Done("set_name", args, args,
                 <<Request("PUT", endpoint(Segs(<<GROUPS, member_email, PHONE, member_name>>), TRUE, None), NoKw)>>,
                 <<resp>>, raise_or(resp, resp))

(***************************************************************************)
(* The client: any operation may be called on a constructed client.        *)
(***************************************************************************)
Next ==
    \/ check_definition_url
    \/ alert_details_url
    \/ dashboard_url
    \/ token_login_url
    \/ grafana_dashboard_url
    \/ status
    \/ get_entities
    \/ get_entity
    \/ add_entity
    \/ delete_entity
    \/ get_dashboard
    \/ update_dashboard
    \/ get_check_definition
    \/ get_check_definitions
    \/ update_check_definition
    \/ delete_check_definition
    \/ get_alert_definition
    \/ get_alert_definitions
    \/ create_alert_definition
    \/ update_alert_definition
    \/ delete_alert_definition
    \/ get_alert_data
    \/ search
    \/ list_onetime_tokens
    \/ get_onetime_token
    \/ get_grafana_dashboard
    \/ update_grafana_dashboard
    \/ create_downtime
    \/ get_groups
    \/ switch_active_user
    \/ add_member
    \/ remove_member
    \/ add_phone
    \/ remove_phone
    \/ set_name

Spec == Init /\ [][Next]_vars

(***************************************************************************)
(* The entity-id helpers, applied to every short id over a small alphabet. *)
(***************************************************************************)
IdAlphabet == {"a", "B", "1", "(", ")", " ", "#", "-"}

IdInputs ==
    UNION {[1..n -> IdAlphabet] : n \in 0..MaxIdLen}
        \cup {<<"H","o","s","t"," ","(","A",")">>}

InitIds ==
    \E url \in BaseUrls, e \in IdInputs :
        /\ zmon = Zmon(url, None, None, None, DefaultTimeout)
        /\ call = [op |-> "input", args |-> e, after |-> e, sent |-> <<>>,
                   resps |-> <<>>, outcome |-> Return(None)]

call_is_valid_entity_id ==
    Done("is_valid_entity_id", call.args, call.args, <<>>, <<>>,
         Return(is_valid_entity_id(call.args)))

call_get_valid_entity_id ==
    Done("get_valid_entity_id", call.args, call.args, <<>>, <<>>,
         Return(get_valid_entity_id(call.args)))

NextIds == call_is_valid_entity_id \/ call_get_valid_entity_id

SpecIds == InitIds /\ [][NextIds]_vars

(***************************************************************************)
(* compare_entities, applied to every pair of a small set of entities.     *)
(* A value of an entity is a str, a datetime (held as its ISO-8601 text)   *)
(* or a set, which JSON cannot encode; an input is a dict or None.         *)
(***************************************************************************)
PyStr(v) == [t |-> "str", v |-> v]
PyDatetime(v) == [t |-> "datetime", v |-> v]
PySet(v) == [t |-> "set", v |-> v]

CmpEntities ==
    {[dict |-> d] :
        d \in Dicts([id : {PyStr("a"), PyStr("b")},
                     last_modified : {PyDatetime("2016-09-08T14:00:12"), PySet("{1}")},
                     data : {PyStr("2016-09-08T14:00:12"),
                             PyDatetime("2016-09-08T14:00:12"), PySet("{1}")}],
                    {"id", "last_modified", "data"})}
    \cup {[none |-> TRUE]}

\* e.copy() exists: e is a dict.
has_copy(e) == "dict" \in DOMAIN e

\* d.pop(key, None) on a dict: the dict without the key.
dict_pop(d, key) == [k \in DOMAIN d \ {key} |-> d[k]]

\* JSONDateEncoder: a str is encoded as it is, a datetime by isoformat(),
\* anything else raises TypeError.
encodable(obj) == obj.t \in {"str", "datetime"}

\* json.loads(json.dumps(d, cls=JSONDateEncoder)) for a dict d whose values
\* can all be encoded: every value comes back as a str.
loads_dumps(d) == [k \in DOMAIN d |-> PyStr(d[k].v)]

\* json.dumps(d, cls=JSONDateEncoder) raises.
dumps_raises(d) == \E k \in DOMAIN d : ~encodable(d[k])

\* compare_entities that compares the entities as they are: a bug that does
\* not drop last_modified.
compare_entities_no_pop(e1, e2) ==
    IF ~has_copy(e1) \/ ~has_copy(e2) THEN FALSE
    ELSE IF dumps_raises(e1.dict) \/ dumps_raises(e2.dict) THEN FALSE
    ELSE loads_dumps(e1.dict) = loads_dumps(e2.dict)

\* compare_entities(e1, e2): any exception inside gives False.
compare_entities(e1, e2) ==
    IF ~has_copy(e1) \/ ~has_copy(e2) THEN FALSE
    ELSE LET e1_copy == dict_pop(e1.dict, "last_modified")
             e2_copy == dict_pop(e2.dict, "last_modified")
         IN  IF dumps_raises(e1_copy) \/ dumps_raises(e2_copy) THEN FALSE
             ELSE loads_dumps(e1_copy) = loads_dumps(e2_copy)

InitCmp ==
    \E url \in BaseUrls, e1 \in CmpEntities, e2 \in CmpEntities :
        /\ zmon = Zmon(url, None, None, None, DefaultTimeout)
        /\ call = [op |-> "input", args |-> <<e1, e2>>, after |-> <<e1, e2>>,
                   sent |-> <<>>, resps |-> <<>>, outcome |-> Return(None)]

\* The pops act on the copies: the caller's mappings stay as they were.
call_compare_entities ==
    Done("compare_entities", call.args, call.args, <<>>, <<>>,
         Return(compare_entities(call.args[1], call.args[2])))

NextCmp == call_compare_entities

SpecCmp == InitCmp /\ [][NextCmp]_vars

(***************************************************************************)
(* The URL builder on its own: endpoint over segments a caller may pass.   *)
(***************************************************************************)
SegmentValues ==
    {StrSeg(<<"entities">>), StrSeg(<<"/", "abc", "/">>), StrSeg(<<"7">>),
     IntSeg(7), IntSeg(42), StrSeg(<<>>), StrSeg(<<"..">>),
     StrSeg(<<"#", "/", "view", "/">>)}

SegmentArgs ==
    UNION {[1..n -> SegmentValues] : n \in 0..MaxSegments}

\* base_url=None, or a base of the caller's: a bare origin, a page, a
\* directory.
BaseUrlArgs ==
    {None, Some(<<"https:", "/", "/", "zmon.example">>),
     Some(<<"https:", "/", "/", "zmon.example", "/", "ui">>),
     Some(<<"https:", "/", "/", "zmon.example", "/", "ui", "/">>)}

\* endpoint reads the client and writes nothing: one call on each newly
\* constructed client shows all it can return.
call_endpoint ==
    \E args \in SegmentArgs, trailing_slash \in BOOLEAN, base_url \in BaseUrlArgs :
        /\ call.op = "__init__"
        /\ Done("endpoint",
                [args |-> args, trailing_slash |-> trailing_slash, base_url |-> base_url],
                [args |-> args, trailing_slash |-> trailing_slash, base_url |-> base_url],
                <<>>, <<>>, Return(endpoint(args, trailing_slash, base_url)))

NextEndpoint == call_endpoint

SpecEndpoint == Init /\ [][NextEndpoint]_vars

(***************************************************************************)
(* The command line: zmon dashboard update <yaml_file>.                    *)
(***************************************************************************)
\* str(dash_id) of what update_dashboard returns, as a path segment.
dash_id_segment(value) ==
    IF "number" \in DOMAIN value THEN IntSeg(value.number)
    ELSE StrSeg(<<"{'id': 1}">>)

\* dashboard_update(obj, yaml_file): the mapping read from the file, the
\* message announced, the client's update_dashboard with its debug log
\* line, and the link printed when it returns.
dashboard_update ==
    \E dashboard \in Dashboards, resp \in Responses :
        LET msg == IF "id" \in DOMAIN dashboard
                   THEN [format |-> "Updating dashboard {} ...", args |-> <<dashboard.id>>]
                   ELSE [format |-> "Creating new dashboard ...", args |-> <<>>]
            updates == "id" \in DOMAIN dashboard /\ dashboard.id # ""
            log == IF updates
                   THEN [format |-> "Updating dashboard with ID: {} ...",
                         args |-> <<dashboard.id>>]
                   ELSE [format |-> "Adding new dashboard ...", args |-> <<>>]
            url == IF updates
                   THEN endpoint(Segs(<<DASHBOARD, dashboard.id>>), TRUE, None)
                   ELSE endpoint(Segs(<<DASHBOARD>>), TRUE, None)
            dash_id == IF raises_for_status(resp) THEN HTTPError(resp) ELSE json(resp)
        IN  /\ call' = [op |-> "dashboard_update", args |-> dashboard,
                        after |-> dashboard, msg |-> msg, log |-> log,
                        sent |-> <<Request("POST", url, [json |-> dashboard])>>,
                        resps |-> <<resp>>,
                        outcome |->
                            IF dash_id.kind # "return" THEN dash_id
                            ELSE Return(endpoint(
                                     <<StrSeg(atoms(DASHBOARD_VIEW_URL)),
                                       dash_id_segment(dash_id.value)>>,
                                     TRUE, Some(zmon.base_url)))]
            /\ UNCHANGED zmon

NextCli == dashboard_update

SpecCli == Init /\ [][NextCli]_vars

(***************************************************************************)
(* Vocabulary of the properties.                                           *)
(***************************************************************************)
DeeplinkOps ==
    {"check_definition_url", "alert_details_url", "dashboard_url", "token_login_url",
     "grafana_dashboard_url"}

ResourceOps ==
    {"status", "get_entities", "get_entity", "add_entity", "delete_entity",
     "get_dashboard", "update_dashboard", "get_check_definition",
     "get_check_definitions", "update_check_definition", "delete_check_definition",
     "get_alert_definition", "get_alert_definitions", "create_alert_definition",
     "update_alert_definition", "delete_alert_definition", "get_alert_data", "search",
     "list_onetime_tokens", "get_onetime_token", "get_grafana_dashboard",
     "update_grafana_dashboard", "create_downtime", "get_groups", "switch_active_user",
     "add_member", "remove_member", "add_phone", "remove_phone", "set_name"}

\* The call ended with an HTTP error.
RaisedHTTPError == call.outcome.kind = "raise" /\ call.outcome.exc = "HTTPError"

\* The call ended with an error of the given class.
Raised(exc) == call.outcome.kind = "raise" /\ call.outcome.exc = exc

\* The call was rejected before anything was sent.
Rejected ==
    /\ call.outcome.kind = "raise"
    /\ call.outcome.exc \in {"ZmonArgumentError", "ZmonError", "KeyError"}

\* The characters of [A-Za-z0-9\-@_.\[\]:].
AllowedIdChars ==
    {"a","b","c","d","e","f","g","h","i","j","k","l","m","n","o","p","q","r","s","t",
     "u","v","w","x","y","z","A","B","C","D","E","F","G","H","I","J","K","L","M","N",
     "O","P","Q","R","S","T","U","V","W","X","Y","Z","0","1","2","3","4","5","6","7",
     "8","9","-","@","_",".","[","]",":"}

\* The whole id matches [A-Za-z0-9\-@_.\[\]:]+ : one or more allowed characters.
MatchesAllowed(id) == Len(id) >= 1 /\ \A i \in DOMAIN id : id[i] \in AllowedIdChars

HostA == <<"H","o","s","t"," ","(","A",")">>
host_a == <<"h","o","s","t","-","[","a","]">>

(***************************************************************************)
(* C1  Every resource operation whose request is answered with a status    *)
(* >= 400 raises an HTTP error and returns no normal result.               *)
(***************************************************************************)
C1_FailedRequestRaises ==
    (call.op \in ResourceOps /\ \E i \in DOMAIN call.resps : call.resps[i].status_code >= 400)
        => RaisedHTTPError

(***************************************************************************)
(* C2  update_check_definition raises an argument error when the payload   *)
(* has no owning_team and a validation error (a ZmonError) when command    *)
(* does not parse, both before any request; the POST to check-definitions  *)
(* is sent only for a payload that passes both checks.                     *)
(***************************************************************************)
C2_CheckDefinitionValidatedBeforePost ==
    call.op = "update_check_definition" =>
        LET cd == call.args
            unparsable == "command" \in DOMAIN cd /\ cd.command \notin {"entities()", ""}
        IN  /\ "owning_team" \notin DOMAIN cd
                => Raised("ZmonArgumentError") /\ call.sent = <<>>
            /\ ("owning_team" \in DOMAIN cd /\ unparsable)
                => Raised("ZmonError") /\ call.sent = <<>>
            /\ unparsable
                => call.outcome.kind = "raise" /\ call.sent = <<>>
                   /\ call.outcome.exc \in {"ZmonError", "ZmonArgumentError"}
            /\ call.sent # <<>>
                => /\ "owning_team" \in DOMAIN cd /\ "command" \in DOMAIN cd /\ ~unparsable
                   /\ Len(call.sent) = 1
                   /\ call.sent[1].method = "POST"
                   /\ call.sent[1].url = zmon.url \o <<"check-definitions", "/">>

C2_Witness ==
    /\ call.op = "update_check_definition"
    /\ "owning_team" \in DOMAIN call.args
    /\ "command" \in DOMAIN call.args
    /\ call.args.command = "def ("
    /\ Raised("ZmonError")

(***************************************************************************)
(* C3  get_check_definition: HTTP 200 with an empty body ends as HTTP 404  *)
(* does, with the not-found HTTP error; HTTP 200 with a valid JSON body    *)
(* returns the decoded definition.                                         *)
(***************************************************************************)
C3_EmptyBodyIsNotFound ==
    (call.op = "get_check_definition" /\ call.resps[1].status_code = 200) =>
        /\ call.resps[1].text = ""
            => RaisedHTTPError /\ call.outcome.status = 404
        /\ call.resps[1].text = "1"
            => call.outcome = Return([number |-> 1])
        /\ call.resps[1].text = "{\"id\": 1}"
            => call.outcome = Return([object |-> [id |-> 1]])

C3_Witness ==
    /\ call.op = "get_check_definition"
    /\ call.resps[1].status_code = 200
    /\ call.resps[1].text = ""
    /\ RaisedHTTPError

(***************************************************************************)
(* C4  The authentication chosen at construction follows the decision      *)
(* table: a supplied token gives the Bearer header and no basic auth; no   *)
(* token with username and password gives basic auth; anything else is     *)
(* unauthenticated. Stated for both readings of "supplied": given at all   *)
(* (not None), or given and not empty.                                     *)
(***************************************************************************)
C4_Bearer(token) ==
    /\ "Authorization" \in DOMAIN zmon.session.headers
    /\ zmon.session.headers["Authorization"] = "Bearer " \o token[1]
    /\ zmon.session.auth = None

C4_Basic(username, password) ==
    /\ "Authorization" \notin DOMAIN zmon.session.headers
    /\ zmon.session.auth = Some(<<username[1], password[1]>>)

C4_Unauthenticated ==
    /\ "Authorization" \notin DOMAIN zmon.session.headers
    /\ zmon.session.auth = None

C4_Table(hasToken, hasUser, hasPassword) ==
    IF hasToken THEN C4_Bearer(call.args.token)
    ELSE IF hasUser /\ hasPassword THEN C4_Basic(call.args.username, call.args.password)
    ELSE C4_Unauthenticated

C4_AuthDecisionTable ==
    call.op = "__init__" =>
        \/ C4_Table(call.args.token # None, call.args.username # None,
                    call.args.password # None)
        \/ C4_Table(Truthy(call.args.token), Truthy(call.args.username),
                    Truthy(call.args.password))

(***************************************************************************)
(* C5  Every request of every operation is sent with the timeout given at  *)
(* construction.                                                           *)
(***************************************************************************)
C5_EveryRequestHasTimeout ==
    \A i \in DOMAIN call.sent : call.sent[i].timeout = Some(zmon.timeout)

(***************************************************************************)
(* C6  As claimed: every resource operation sends exactly one request when *)
(* its validation passes and none when the payload is rejected, and the    *)
(* deeplink builders send none.                                            *)
(***************************************************************************)
C6_ExactlyOneRequest ==
    /\ call.op \in DeeplinkOps => call.sent = <<>>
    /\ call.op \in ResourceOps => Len(call.sent) = IF Rejected THEN 0 ELSE 1

(***************************************************************************)
(* C6 amended: every resource operation other than switch_active_user      *)
(* sends exactly one request when its validation passes and none when the  *)
(* payload is rejected; switch_active_user sends one request when the      *)
(* deactivate call fails and two otherwise; the deeplink builders send     *)
(* none.                                                                   *)
(***************************************************************************)
C6_OneRequestExceptSwitch ==
    /\ call.op \in DeeplinkOps => call.sent = <<>>
    /\ call.op \in ResourceOps \ {"switch_active_user"}
        => Len(call.sent) = IF Rejected THEN 0 ELSE 1
    /\ call.op = "switch_active_user"
        => Len(call.sent) = IF call.resps[1].status_code >= 400 THEN 1 ELSE 2
    /\ Len(call.resps) = Len(call.sent)

C6_Witness ==
    /\ call.op = "switch_active_user"
    /\ Len(call.sent) = 2
    /\ call.outcome.kind = "return"

(***************************************************************************)
(* C7  switch_active_user sends DELETE groups/<group>/active first and PUT *)
(* groups/<group>/active/<user> second, the second only after a successful *)
(* first response; a failed deactivate raises its HTTP error and nothing   *)
(* more is sent; a failed activate raises its HTTP error; a boolean is     *)
(* returned only after both calls succeeded.                               *)
(***************************************************************************)
C7_DeactivateThenActivate ==
    call.op = "switch_active_user" =>
        LET g == call.args.group_name
            u == call.args.user_name
        IN  /\ Len(call.sent) >= 1
            /\ call.sent[1].method = "DELETE"
            /\ call.sent[1].url = zmon.url \o <<"groups", "/", g, "/", "active", "/">>
            /\ call.resps[1].status_code >= 400
                => /\ Len(call.sent) = 1
                   /\ RaisedHTTPError
                   /\ call.outcome.status = call.resps[1].status_code
            /\ Len(call.sent) >= 2
                => /\ Len(call.sent) = 2
                   /\ call.resps[1].status_code < 400
                   /\ call.sent[2].method = "PUT"
                   /\ call.sent[2].url =
                        zmon.url \o <<"groups", "/", g, "/", "active", "/", u, "/">>
                   /\ call.resps[2].status_code >= 400
                        => RaisedHTTPError
                           /\ call.outcome.status = call.resps[2].status_code
            /\ call.outcome.kind = "return"
                => /\ Len(call.sent) = 2
                   /\ \A i \in 1..2 : call.resps[i].status_code < 400
                   /\ call.outcome.value \in BOOLEAN
                   /\ call.outcome.value = (call.resps[2].text = "1")

C7_Witness ==
    /\ call.op = "switch_active_user"
    /\ call.resps[1].status_code = 500
    /\ Len(call.sent) = 1
    /\ RaisedHTTPError

(***************************************************************************)
(* C8  add_entity raises an argument error and sends no PUT whenever the   *)
(* entity lacks id or type or its id does not match                        *)
(* [A-Za-z0-9\-@_.\[\]:]+ (so an empty id is rejected); only an entity     *)
(* that passes produces a PUT to the entities endpoint.                    *)
(***************************************************************************)
C8_AddEntityRejectsBadId ==
    call.op = "add_entity" =>
        LET entity == call.args
            bad == \/ "id" \notin DOMAIN entity
                   \/ "type" \notin DOMAIN entity
                   \/ ~MatchesAllowed(entity.id)
        IN  /\ bad => Raised("ZmonArgumentError") /\ call.sent = <<>>
            /\ call.sent # <<>>
                => /\ ~bad
                   /\ Len(call.sent) = 1
                   /\ call.sent[1].method = "PUT"
                   /\ call.sent[1].url = zmon.url \o <<"entities">>

(***************************************************************************)
(* C9  is_valid_entity_id is true for every id that matches                *)
(* ^[A-Za-z0-9\-@_.\[\]:]+$ and false for every id with a character        *)
(* outside that set; the id is left as it was.                             *)
(***************************************************************************)
C9_ValidIffAllowedChars ==
    call.op = "is_valid_entity_id" =>
        /\ MatchesAllowed(call.args) => call.outcome = Return(TRUE)
        /\ (\E i \in DOMAIN call.args : call.args[i] \notin AllowedIdChars)
            => call.outcome = Return(FALSE)
        /\ call.after = call.args

C9_Witness ==
    /\ call.op = "is_valid_entity_id"
    /\ call.args = <<"a", "#">>
    /\ call.outcome = Return(FALSE)

(***************************************************************************)
(* C10  get_valid_entity_id lowercases the id, turns each maximal run of   *)
(* "(" into one "[" and each maximal run of ")" into one "]", and every    *)
(* other maximal run of disallowed characters into one "-"; the result is  *)
(* a valid entity id and is a fixed point of get_valid_entity_id.          *)
(***************************************************************************)
\* What becomes of one character of the lowercased id.
C10_Kind(c) ==
    IF c = "(" THEN "[" ELSE IF c = ")" THEN "]"
    ELSE IF c \in AllowedIdChars THEN "keep" ELSE "-"

\* The described result: an allowed character stays, and of each maximal run
\* of characters of one replaced kind only the first is written.
C10_Described(e) ==
    LET s == [i \in DOMAIN e |->
                IF e[i] \in Range(UpperLetters)
                THEN LowerLetters[CHOOSE k \in 1..26 : UpperLetters[k] = e[i]]
                ELSE e[i]]
        written == {i \in DOMAIN s :
                      C10_Kind(s[i]) # "keep" =>
                          (i = 1 \/ C10_Kind(s[i - 1]) # C10_Kind(s[i]))}
        nth(j) == CHOOSE i \in written : Cardinality({k \in written : k <= i}) = j
    IN  [j \in 1..Cardinality(written) |->
            IF C10_Kind(s[nth(j)]) = "keep" THEN s[nth(j)] ELSE C10_Kind(s[nth(j)])]

C10_NormalisedIdIsValidFixedPoint ==
    call.op = "get_valid_entity_id" =>
        LET r == call.outcome.value
        IN  /\ r = C10_Described(call.args)
            /\ \A i \in DOMAIN r : r[i] \in AllowedIdChars
            /\ is_valid_entity_id(r)
            /\ get_valid_entity_id(r) = r
            /\ call.args = HostA => r = host_a

C10_Witness ==
    /\ call.op = "get_valid_entity_id"
    /\ call.args = HostA
    /\ call.outcome = Return(host_a)

(***************************************************************************)
(* C11  As claimed: compare_entities(e, e) is true for every entity e.     *)
(***************************************************************************)
C11_ReflexiveForEveryEntity ==
    (call.op = "compare_entities" /\ call.args[1] = call.args[2]
        /\ "dict" \in DOMAIN call.args[1])
        => call.outcome = Return(TRUE)

(***************************************************************************)
(* C11 amended: compare_entities(e, e) is true for every entity e that,    *)
(* with its top-level last_modified left out, can be serialized to JSON;   *)
(* two entities that differ in last_modified only compare equal; when      *)
(* either entity, with last_modified left out, cannot be serialized the    *)
(* result is false; the call never raises and leaves both inputs as they   *)
(* were.                                                                   *)
(***************************************************************************)
\* The entity without its top-level last_modified.
C11_Rest(e) == [k \in DOMAIN e.dict \ {"last_modified"} |-> e.dict[k]]

\* Every value of the entity, last_modified aside, has a JSON encoding.
C11_Serializable(e) ==
    \A k \in DOMAIN C11_Rest(e) : C11_Rest(e)[k].t # "set"

C11_CompareIgnoresLastModified ==
    call.op = "compare_entities" =>
        LET e1 == call.args[1]
            e2 == call.args[2]
            dicts == "dict" \in DOMAIN e1 /\ "dict" \in DOMAIN e2
        IN  /\ call.outcome.kind = "return"
            /\ call.outcome.value \in BOOLEAN
            /\ call.after = call.args
            /\ ~dicts => call.outcome.value = FALSE
            /\ (dicts /\ C11_Serializable(e1) /\ C11_Serializable(e2)
                      /\ C11_Rest(e1) = C11_Rest(e2))
                => call.outcome.value = TRUE
            /\ (dicts /\ (~C11_Serializable(e1) \/ ~C11_Serializable(e2)))
                => call.outcome.value = FALSE

C11_Witness ==
    /\ call.op = "compare_entities"
    /\ "dict" \in DOMAIN call.args[1] /\ "dict" \in DOMAIN call.args[2]
    /\ "last_modified" \in DOMAIN call.args[1].dict
    /\ "last_modified" \notin DOMAIN call.args[2].dict
    /\ "id" \in DOMAIN call.args[1].dict
    /\ C11_Rest(call.args[1]) = C11_Rest(call.args[2])
    /\ call.outcome = Return(TRUE)

(***************************************************************************)
(* C12: what endpoint returns.                                             *)
(***************************************************************************)
\* The base a call of endpoint resolves against.
EndpointBase ==
    IF call.args.base_url = None THEN zmon.url ELSE call.args.base_url[1]

\* A segment as the claim reads it: stringified, outer slashes removed.
DecimalString(n) == CASE n = 7 -> "7" [] n = 42 -> "42"

SegmentText(p) ==
    IF "int" \in DOMAIN p THEN <<DecimalString(p.int)>>
    ELSE LET keep == {i \in DOMAIN p.str : p.str[i] # "/"}
         IN  IF keep = {} THEN <<>>
             ELSE SubSeq(p.str, CHOOSE i \in keep : \A j \in keep : i <= j,
                                CHOOSE i \in keep : \A j \in keep : j <= i)

RECURSIVE JoinedSegments(_)
JoinedSegments(args) ==
    IF args = <<>> THEN <<>>
    ELSE IF Len(args) = 1 THEN SegmentText(args[1])
    ELSE SegmentText(args[1]) \o <<"/">> \o JoinedSegments(Tail(args))

EndsWithSlash(url) == url # <<>> /\ url[Len(url)] = "/"

\* A plain name: one run of ordinary characters, not a dot segment and not
\* the start of a fragment.
PlainSegment(p) ==
    \/ "int" \in DOMAIN p
    \/ /\ "str" \in DOMAIN p
       /\ Len(SegmentText(p)) = 1
       /\ SegmentText(p)[1] \notin {"#", ".", ".."}

\* A bare origin <scheme>://<host>: nothing after the host.
BareOrigin(url) == Len(url) = 4

C13_DeletedIffBodyIsOne ==
    call.op = "delete_entity" =>
        LET resp == call.resps[1]
        IN  ok(resp) =>
                /\ call.outcome.kind = "return"
                /\ call.outcome.value \in BOOLEAN
                /\ call.outcome.value <=> resp.text = "1"
                /\ resp.text \in {" 1 ", "1\n", "true", "[1]"}
                    => call.outcome.value = FALSE

\* A success whose body is 1 in JSON but not the text "1".
C13_Witness ==
    /\ call.op = "delete_entity"
    /\ call.resps[1].status_code = 200
    /\ call.resps[1].text = " 1 "
    /\ call.outcome = Return(FALSE)

(***************************************************************************)
(* C14: what search validates and sends.                                   *)
(***************************************************************************)
\* The teams argument is supplied and is not a list or tuple.
C14_TeamsNotSequence ==
    call.args.teams # None /\ call.args.teams.type \notin {"list", "tuple"}

\* C14: search raises an argument error and sends nothing for an empty
\* query and for every supplied teams value that is not a sequence, falsy
\* ones included; with teams ["A", "B"] it sends one GET with query=<q> and
\* the single parameter teams=A,B; without teams it sends no teams parameter.
C14_SearchValidatesQueryAndTeams ==
    call.op = "search" =>
        LET a == call.args
        IN  /\ (a.q = "" \/ C14_TeamsNotSequence)
                => Raised("ZmonArgumentError") /\ call.sent = <<>>
            /\ (a.q # "" /\ a.teams = [type |-> "list", items |-> <<"A", "B">>])
                => /\ Len(call.sent) = 1
                   /\ call.sent[1].method = "GET"
                   /\ call.sent[1].kw.params = [query |-> a.q, teams |-> "A,B"]
            /\ (a.q # "" /\ a.teams = None)
                => /\ Len(call.sent) = 1
                   /\ call.sent[1].method = "GET"
                   /\ call.sent[1].kw.params = [query |-> a.q]

(***************************************************************************)
(* C15: alert definitions are validated, defaulted and sent.               *)
(***************************************************************************)
\* The payload with status defaulted to ACTIVE.
C15_Defaulted(ad) ==
    [k \in DOMAIN ad \cup {"status"} |->
        IF k \in DOMAIN ad THEN ad[k] ELSE "ACTIVE"]

\* The keys the operation of the call requires.
C15_Required ==
    IF call.op = "create_alert_definition"
    THEN {"last_modified_by", "check_definition_id"}
    ELSE {"last_modified_by", "check_definition_id", "id"}

\* C15: create_alert_definition and update_alert_definition raise an
\* argument error and send nothing when a required key is missing; for an
\* accepted payload they send one request whose body is the payload with
\* status defaulted to ACTIVE, create by POST to alert-definitions/ and
\* update by PUT to alert-definitions/<id>/.
C15_AlertDefinitionValidatedAndSent ==
    call.op \in {"create_alert_definition", "update_alert_definition"} =>
        IF C15_Required \subseteq DOMAIN call.args
        THEN /\ Len(call.sent) = 1
             /\ call.sent[1].kw.json = C15_Defaulted(call.args)
             /\ call.op = "create_alert_definition"
                 => /\ call.sent[1].method = "POST"
                    /\ call.sent[1].url = zmon.url \o <<"alert-definitions", "/">>
             /\ call.op = "update_alert_definition"
                 => /\ call.sent[1].method = "PUT"
                    /\ call.sent[1].url =
                          zmon.url \o <<"alert-definitions", "/", call.args.id, "/">>
        ELSE Raised("ZmonArgumentError") /\ call.sent = <<>>

\* An accepted payload without status is created as ACTIVE.
C15_Witness ==
    /\ call.op = "create_alert_definition"
    /\ call.args = [last_modified_by |-> "user", check_definition_id |-> "7"]
    /\ Len(call.sent) = 1
    /\ call.sent[1].method = "POST"
    /\ call.sent[1].kw.json.status = "ACTIVE"

(***************************************************************************)
(* C16: update_grafana_dashboard requires the nested id and title.         *)
(***************************************************************************)
\* The payload has a dashboard mapping with both nested fields.
C16_HasNestedFields ==
    /\ "dashboard" \in DOMAIN call.args
    /\ {"id", "title"} \subseteq DOMAIN call.args.dashboard

\* C16: update_grafana_dashboard raises an argument error before any
\* request for every payload that lacks dashboard.id or dashboard.title, a
\* payload with no dashboard mapping included, and sends the POST only when
\* both are present.
C16_GrafanaRequiresNestedFields ==
    call.op = "update_grafana_dashboard" =>
        IF C16_HasNestedFields
        THEN /\ Len(call.sent) = 1
             /\ call.sent[1].method = "POST"
             /\ call.sent[1].kw.json = call.args
        ELSE Raised("ZmonArgumentError") /\ call.sent = <<>>

(***************************************************************************)
(* C17: update or create, and what the command line announces.             *)
(***************************************************************************)
\* The client took the update path, the create path.
C17_ClientUpdates == call.log.format = "Updating dashboard with ID: {} ..."
C17_ClientCreates == call.log.format = "Adding new dashboard ..."

\* C17: the presence of id in the mapping selects the update path, its
\* absence the create path; the command announces "Updating" exactly when
\* the client takes the update path and "Creating" exactly when it takes
\* the create path.
C17_AnnouncesThePathTaken ==
    call.op = "dashboard_update" =>
        /\ "id" \in DOMAIN call.args <=> C17_ClientUpdates
        /\ "id" \notin DOMAIN call.args <=> C17_ClientCreates
        /\ C17_ClientUpdates
            => call.sent[1].url = zmon.url \o <<"dashboard", "/", call.args.id, "/">>
        /\ C17_ClientCreates => call.sent[1].url = zmon.url \o <<"dashboard", "/">>
        /\ call.msg.format = "Updating dashboard {} ..." <=> C17_ClientUpdates
        /\ call.msg.format = "Creating new dashboard ..." <=> C17_ClientCreates

(***************************************************************************)
(* C18: a rejected payload is left as it was passed in.                    *)
(***************************************************************************)
\* The call ended with an argument error or a validation error.
C18_RejectedByValidation ==
    /\ call.outcome.kind = "raise"
    /\ call.outcome.exc \in {"ZmonArgumentError", "ZmonError"}

\* C18: when update_check_definition, create_alert_definition or
\* update_alert_definition rejects a payload with an argument or validation
\* error, the caller's mapping is as it was passed in: no key added or
\* changed, no status = ACTIVE written.
C18_RejectedPayloadUntouched ==
    (/\ call.op \in {"update_check_definition", "create_alert_definition",
                     "update_alert_definition"}
     /\ C18_RejectedByValidation)
        => call.after = call.args

====
